---- MODULE Spec2Model ----
(***************************************************************************)
(* The Central Limit Theorem dashboard of src/app.py as a state machine.   *)
(*                                                                         *)
(* The script is executed from its first line to its last on every render  *)
(* pass.  A pass is started by the page load or by a user event (a changed *)
(* control, a click on "Run Simulation").  The widget values live in the   *)
(* session (widgets); everything else the script names lives in the        *)
(* namespace of one pass (locals).                                         *)
(*                                                                         *)
(* An array is a record [shape, tracked, elems]: elems is the flat C-order *)
(* buffer.  The app draws at least 100 values per run, so Spec follows the *)
(* arrays' shapes only (tracked = FALSE, elems = <<>>); AggSpec runs the   *)
(* same reshape-and-mean step of lines 100-101 on small arrays whose       *)
(* elements are followed (tracked = TRUE).  A mean is the exact rational   *)
(* <<numerator, denominator>>.                                             *)
(***************************************************************************)
EXTENDS Integers, Sequences, FiniteSets, TLC

VARIABLES
    widgets,    \* session state of the three controls
    clicked,    \* the event that started this pass was the button
    locals,     \* the script's namespace in this pass: name -> value
    rendered,   \* the elements this pass has put on the page, in order
    calls,      \* the library calls this pass has made, in order
    pc,         \* the script's position
    rng_calls,  \* draws made from the process-wide random source
    events      \* user events so far

vars == <<widgets, clicked, locals, rendered, calls, pc, rng_calls, events>>

----------------------------------------------------------------------------
(* Bounds of the model *)

\* How many values next to each end of a control's range the user picks.
EdgeSteps == 1
\* User events in one behaviour.
MaxEvents == 4
\* Longest raw sequence handed to the aggregator in AggSpec.
MaxLen == 6
\* Largest raw value in AggSpec.
MaxVal == 1
\* Largest num_samples and sample_size in AggSpec.
MaxDim == 3

----------------------------------------------------------------------------
(* The controls, lines 56-83 *)

AvgMin == 10
AvgMax == 1000
AvgDefault == 150
AvgStep == 10

SizeMin == 1
SizeMax == 100
SizeDefault == 30
SizeStep == 1

NumMin == 100
NumMax == 10000
NumDefault == 2000
NumStep == 100

\* A slider one step too long.
SliderRangeLong(lo, hi, step) ==
    {lo + k * step : k \in 0..(((hi - lo) \div step) + 1)}

\* The values a slider can take: lo, lo+step, ... up to hi.
SliderRange(lo, hi, step) ==
    {lo + k * step : k \in 0..((hi - lo) \div step)}

\* The values an integer number input accepts: any integer of the range.
NumberInputRange(lo, hi) == lo..hi

\* The values of range S the user picks in this model: the ones within
\* EdgeSteps steps of either end, and the default.
Picks(S, lo, hi, step, dflt) ==
    {v \in S : \/ v - lo <= EdgeSteps * step
               \/ hi - v <= EdgeSteps * step
               \/ v = dflt}

AvgChoices ==
    Picks(NumberInputRange(AvgMin, AvgMax), AvgMin, AvgMax, 1, AvgDefault)
      \cup Picks(SliderRange(AvgMin, AvgMax, AvgStep), AvgMin, AvgMax, AvgStep, AvgDefault)

SizeChoices ==
    Picks(SliderRange(SizeMin, SizeMax, SizeStep), SizeMin, SizeMax, SizeStep, SizeDefault)

NumChoices ==
    Picks(SliderRange(NumMin, NumMax, NumStep), NumMin, NumMax, NumStep, NumDefault)

----------------------------------------------------------------------------
(* Namespaces, sequences, rationals *)

Bind(env, name, val) == (name :> val) @@ env

Bound(env, name) == name \in DOMAIN env

Elements(s) == {s[i] : i \in DOMAIN s}

Count(s, x) == Cardinality({i \in DOMAIN s : s[i] = x})

RECURSIVE SumSeq(_)
SumSeq(s) == IF s = <<>> THEN 0 ELSE Head(s) + SumSeq(Tail(s))

RatEq(a, b) == a[1] * b[2] = b[1] * a[2]

RatAdd(a, b) == <<a[1] * b[2] + b[1] * a[2], a[2] * b[2]>>

RECURSIVE RatSum(_)
RatSum(s) == IF s = <<>> THEN <<0, 1>> ELSE RatAdd(Head(s), RatSum(Tail(s)))

RatDivInt(a, n) == <<a[1], a[2] * n>>

RatMulInt(a, n) == <<a[1] * n, a[2]>>

----------------------------------------------------------------------------
(* The array operations of lines 96-101 *)

\* An array's number of elements: the product of its dimensions.
Size(a) ==
    IF Len(a.shape) = 1 THEN a.shape[1] ELSE a.shape[1] * a.shape[2]

\* Line 96 with the factors added.
TotalDaysSum(n, s) == n + s

\* Line 96: total_days_to_simulate = num_samples * sample_size
TotalDays(n, s) == n * s

\* A sampler that returns one value too many.
ExponentialLong(scale, size) ==
    [shape |-> <<size + 1>>, tracked |-> FALSE, elems |-> <<>>]

\* Line 97: np.random.exponential(scale, size) returns size draws.  The
\* app's draws are not followed one by one.
Exponential(scale, size) ==
    [shape |-> <<size>>, tracked |-> FALSE, elems |-> <<>>]

\* Column-major (Fortran order) index.
FlatIndexF(i, j, shape) == (j - 1) * shape[1] + i

\* The place in the flat buffer of element (i, j) of a two-dimensional
\* array, rows and columns counted from 1: C order, row after row.
FlatIndex(i, j, shape) == (i - 1) * shape[2] + j

At2(m, i, j) == m.elems[FlatIndex(i, j, m.shape)]

\* A reshape that never raises: the data is repeated or cut to fit.
ReshapeResize(a, r, c) ==
    [raised |-> FALSE,
     value  |-> [shape   |-> <<r, c>>,
                 tracked |-> a.tracked,
                 elems   |-> IF a.tracked
                               THEN [k \in 1..(r * c) |->
                                       IF Size(a) = 0 THEN 0
                                       ELSE a.elems[((k - 1) % Size(a)) + 1]]
                               ELSE <<>>]]

\* Line 100: a.reshape(r, c) raises ValueError unless the array holds
\* exactly r*c elements; otherwise the same buffer is read as r rows of c.
Reshape(a, r, c) ==
    IF Size(a) # r * c
      THEN [raised |-> TRUE, value |-> a]
      ELSE [raised |-> FALSE,
            value  |-> [shape |-> <<r, c>>, tracked |-> a.tracked, elems |-> a.elems]]

\* A mean that divides with integer division.
MeanFloor(s) == <<SumSeq(s) \div Len(s), 1>>

\* The arithmetic mean of a sequence of numbers, exactly.
Mean(s) == <<SumSeq(s), Len(s)>>

\* The mean taken down the columns (axis 0).
MeanAxis0(m) ==
    [shape   |-> <<m.shape[2]>>,
     tracked |-> m.tracked,
     elems   |-> IF m.tracked
                   THEN [j \in 1..m.shape[2] |->
                           Mean([i \in 1..m.shape[1] |-> At2(m, i, j)])]
                   ELSE <<>>]

\* Line 101: np.mean(samples, axis=1), one mean per row.
MeanAxis1(m) ==
    [shape   |-> <<m.shape[1]>>,
     tracked |-> m.tracked,
     elems   |-> IF m.tracked
                   THEN [i \in 1..m.shape[1] |->
                           Mean([j \in 1..m.shape[2] |-> At2(m, i, j)])]
                   ELSE <<>>]

----------------------------------------------------------------------------
(* The page *)

\* What the results branch (lines 91-144) puts on the page.
ResultElements ==
    {"results_header", "subheader1", "chart1", "text1",
     "subheader2", "chart2", "text2", "implications_header", "implications"}

DefaultWidgets ==
    [avg_daily_revenue |-> AvgDefault,
     sample_size       |-> SizeDefault,
     num_samples       |-> NumDefault]

\* A new pass that keeps the namespace of the pass before it.
RerunKeeping(button) ==
    /\ clicked' = button
    /\ locals' = locals
    /\ rendered' = <<>>
    /\ calls' = <<>>
    /\ pc' = "start"

\* A user event starts a new pass: the script runs again from line 1 in an
\* empty namespace and the page is drawn anew.  The script keeps nothing
\* (no cache, no session entry, no file), so nothing but the widget values
\* and the random source outlives the pass.
Rerun(button) ==
    /\ clicked' = button
    /\ locals' = <<>>
    /\ rendered' = <<>>
    /\ calls' = <<>>
    /\ pc' = "start"

\* The script has ended, at its last line or at an uncaught exception.  The
\* user acts on the page between passes: a run blocks until it has ended.
Idle == pc \in {"done", "error"}

Init ==
    /\ widgets = DefaultWidgets
    /\ clicked = FALSE
    /\ locals = <<>>
    /\ rendered = <<>>
    /\ calls = <<>>
    /\ pc = "start"
    /\ rng_calls = 0
    /\ events = 0

----------------------------------------------------------------------------
(* User events *)

\* The number input of lines 56-63 takes a new value.
ChangeAvg ==
    /\ Idle
    /\ events < MaxEvents
    /\ \E v \in AvgChoices :
         /\ v # widgets.avg_daily_revenue
         /\ widgets' = [widgets EXCEPT !.avg_daily_revenue = v]
    /\ Rerun(FALSE)
    /\ events' = events + 1
    /\ UNCHANGED rng_calls

\* The slider of lines 66-73 takes a new value.
ChangeSampleSize ==
    /\ Idle
    /\ events < MaxEvents
    /\ \E v \in SizeChoices :
         /\ v # widgets.sample_size
         /\ widgets' = [widgets EXCEPT !.sample_size = v]
    /\ Rerun(FALSE)
    /\ events' = events + 1
    /\ UNCHANGED rng_calls

\* The slider of lines 76-83 takes a new value.
ChangeNumSamples ==
    /\ Idle
    /\ events < MaxEvents
    /\ \E v \in NumChoices :
         /\ v # widgets.num_samples
         /\ widgets' = [widgets EXCEPT !.num_samples = v]
    /\ Rerun(FALSE)
    /\ events' = events + 1
    /\ UNCHANGED rng_calls

\* The button of line 86 is pressed.
ClickRun ==
    /\ Idle
    /\ events < MaxEvents
    /\ Rerun(TRUE)
    /\ events' = events + 1
    /\ UNCHANGED <<widgets, rng_calls>>

----------------------------------------------------------------------------
(* The script, one action per block *)

\* Lines 7-48: page configuration, style, title and introduction.
PageHeader ==
    /\ pc = "start"
    /\ rendered' = rendered \o <<"title", "intro">>
    /\ pc' = "sidebar"
    /\ UNCHANGED <<widgets, clicked, locals, calls, rng_calls, events>>

\* Lines 51-86: the sidebar.  Each widget returns its session value; the
\* button returns True only in the pass its click started.
Sidebar ==
    /\ pc = "sidebar"
    /\ rendered' = Append(rendered, "controls")
    /\ locals' = [avg_daily_revenue |-> widgets.avg_daily_revenue,
                  sample_size       |-> widgets.sample_size,
                  num_samples       |-> widgets.num_samples,
                  run_simulation    |-> clicked]
    /\ pc' = "main"
    /\ UNCHANGED <<widgets, clicked, calls, rng_calls, events>>

\* The information box drawn whatever the button returned.
ShowInfoAlways ==
    /\ pc = "main"
    /\ rendered' = Append(rendered, "info")
    /\ pc' = "done"
    /\ UNCHANGED <<widgets, clicked, locals, calls, rng_calls, events>>

\* Lines 146-147: the else branch.
ShowInfo ==
    /\ pc = "main"
    /\ ~locals.run_simulation
    /\ rendered' = Append(rendered, "info")
    /\ pc' = "done"
    /\ UNCHANGED <<widgets, clicked, locals, calls, rng_calls, events>>

\* Lines 90-91: the results header is drawn before anything is computed.
ResultsHeader ==
    /\ pc = "main"
    /\ locals.run_simulation
    /\ rendered' = Append(rendered, "results_header")
    /\ pc' = "sample"
    /\ UNCHANGED <<widgets, clicked, locals, calls, rng_calls, events>>

\* Lines 96-97: the sampler is called with the product of the two sizes.
Sample ==
    /\ pc = "sample"
    /\ LET total == TotalDays(locals.num_samples, locals.sample_size)
       IN  locals' = Bind(Bind(locals, "total_days_to_simulate", total),
                          "daily_revenue_data",
                          Exponential(locals.avg_daily_revenue, total))
    /\ calls' = Append(calls, "exponential")
    /\ rng_calls' = rng_calls + 1
    /\ pc' = "reshape"
    /\ UNCHANGED <<widgets, clicked, rendered, events>>

\* Line 97 raises (the allocation of the draws fails): the script stops and
\* the page keeps what was drawn, followed by the exception.
SampleRaises ==
    /\ pc = "sample"
    /\ locals' = Bind(locals, "total_days_to_simulate",
                      TotalDays(locals.num_samples, locals.sample_size))
    /\ calls' = Append(calls, "exponential")
    /\ rendered' = Append(rendered, "exception")
    /\ pc' = "error"
    /\ UNCHANGED <<widgets, clicked, rng_calls, events>>

\* Lines 100-101: reshape into num_samples rows of sample_size, then the
\* mean of each row.  A reshape that raises stops the script.
Aggregate ==
    /\ pc = "reshape"
    /\ LET r == Reshape(locals.daily_revenue_data,
                        locals.num_samples, locals.sample_size)
       IN  IF r.raised
             THEN /\ locals' = locals
                  /\ calls' = Append(calls, "reshape")
                  /\ rendered' = Append(rendered, "exception")
                  /\ pc' = "error"
             ELSE /\ locals' = Bind(Bind(locals, "samples", r.value),
                                    "sample_means", MeanAxis1(r.value))
                  /\ calls' = calls \o <<"reshape", "mean">>
                  /\ rendered' = rendered
                  /\ pc' = "plot1"
    /\ UNCHANGED <<widgets, clicked, rng_calls, events>>

\* The left column without its chart.
Plot1NoChart ==
    /\ pc = "plot1"
    /\ calls' = Append(calls, "histogram1")
    /\ rendered' = rendered \o <<"subheader1", "text1">>
    /\ pc' = "plot2"
    /\ UNCHANGED <<widgets, clicked, locals, rng_calls, events>>

\* Lines 104-117: the histogram of the raw data.
Plot1 ==
    /\ pc = "plot1"
    /\ calls' = Append(calls, "histogram1")
    /\ rendered' = rendered \o <<"subheader1", "chart1", "text1">>
    /\ pc' = "plot2"
    /\ UNCHANGED <<widgets, clicked, locals, rng_calls, events>>

\* Lines 107-116: the subheader is drawn, then building or sending the
\* first chart raises.
Plot1Raises ==
    /\ pc = "plot1"
    /\ calls' = Append(calls, "histogram1")
    /\ rendered' = rendered \o <<"subheader1", "exception">>
    /\ pc' = "error"
    /\ UNCHANGED <<widgets, clicked, locals, rng_calls, events>>

\* Lines 119-130: the histogram of the sample means.
Plot2 ==
    /\ pc = "plot2"
    /\ calls' = Append(calls, "histogram2")
    /\ rendered' = rendered \o <<"subheader2", "chart2", "text2">>
    /\ pc' = "implications"
    /\ UNCHANGED <<widgets, clicked, locals, rng_calls, events>>

\* Lines 120-129: the subheader is drawn, then building or sending the
\* second chart raises.
Plot2Raises ==
    /\ pc = "plot2"
    /\ calls' = Append(calls, "histogram2")
    /\ rendered' = rendered \o <<"subheader2", "exception">>
    /\ pc' = "error"
    /\ UNCHANGED <<widgets, clicked, locals, rng_calls, events>>

\* Lines 133-144: the closing text.
Implications ==
    /\ pc = "implications"
    /\ rendered' = rendered \o <<"implications_header", "implications">>
    /\ pc' = "done"
    /\ UNCHANGED <<widgets, clicked, locals, calls, rng_calls, events>>

Next ==
    \/ ChangeAvg
    \/ ChangeSampleSize
    \/ ChangeNumSamples
    \/ ClickRun
    \/ PageHeader
    \/ Sidebar
    \/ ShowInfo
    \/ ResultsHeader
    \/ Sample
    \/ SampleRaises
    \/ Aggregate
    \/ Plot1
    \/ Plot1Raises
    \/ Plot2
    \/ Plot2Raises
    \/ Implications

Spec == Init /\ [][Next]_vars

----------------------------------------------------------------------------
(* The aggregator on its own: lines 100-101 applied to any raw sequence *)

RECURSIVE SeqsUpTo(_, _)
SeqsUpTo(S, n) ==
    IF n = 0 THEN {<<>>}
    ELSE LET shorter == SeqsUpTo(S, n - 1)
         IN  shorter \cup {Append(s, x) : s \in {t \in shorter : Len(t) = n - 1}, x \in S}

Tracked(s) == [shape |-> <<Len(s)>>, tracked |-> TRUE, elems |-> s]

AggInit ==
    /\ widgets = DefaultWidgets
    /\ clicked = TRUE
    /\ \E s \in SeqsUpTo(0..MaxVal, MaxLen), n \in 1..MaxDim, k \in 1..MaxDim :
         locals = [daily_revenue_data |-> Tracked(s),
                   num_samples        |-> n,
                   sample_size        |-> k]
    /\ rendered = <<>>
    /\ calls = <<>>
    /\ pc = "reshape"
    /\ rng_calls = 0
    /\ events = 0

AggNext == Aggregate

AggSpec == AggInit /\ [][AggNext]_vars

----------------------------------------------------------------------------
(* Properties of the aggregator (AggSpec) *)

RECURSIVE SumFromTo(_, _, _)
SumFromTo(s, lo, hi) == IF lo > hi THEN 0 ELSE s[lo] + SumFromTo(s, lo + 1, hi)

Aggregated == pc = "plot1"

RawElems == locals.daily_revenue_data.elems

\* C1: after the aggregation, entry i (from 0) of the sample means is the
\* arithmetic mean of exactly the raw elements i*sample_size ..
\* (i+1)*sample_size - 1, and every raw index is the place of exactly one
\* cell of the reshaped array: the blocks neither overlap nor leave a gap.
C1_BlockMeans ==
    Aggregated =>
      LET n == locals.num_samples
          k == locals.sample_size
      IN  /\ DOMAIN locals.sample_means.elems = 1..n
          /\ \A i \in 0..(n - 1) :
               RatEq(locals.sample_means.elems[i + 1],
                     <<SumFromTo(RawElems, i * k + 1, (i + 1) * k), k>>)
          /\ \A x \in 1..Len(RawElems) :
               Cardinality({c \in (1..n) \X (1..k) :
                              FlatIndex(c[1], c[2], locals.samples.shape) = x}) = 1

\* Two blocks of two with different means have been aggregated.
C1_Witness ==
    /\ Aggregated
    /\ locals.num_samples = 2
    /\ locals.sample_size = 2
    /\ RawElems = <<0, 1, 1, 1>>
    /\ locals.sample_means.elems = <<(<<1, 2>>), (<<2, 2>>)>>

\* C3: the mean of the sample means equals the mean of the raw sequence;
\* equivalently sample_size times the sum of the means is the raw sum.
C3_MeanPreserved ==
    Aggregated =>
      LET means == locals.sample_means.elems
      IN  /\ RatEq(RatDivInt(RatSum(means), locals.num_samples),
                   <<SumSeq(RawElems), Len(RawElems)>>)
          /\ RatEq(RatMulInt(RatSum(means), locals.sample_size),
                   <<SumSeq(RawElems), 1>>)

\* Three blocks of two whose overall mean, 1/2, is no block's mean.
C3_Witness ==
    /\ Aggregated
    /\ locals.num_samples = 3
    /\ locals.sample_size = 2
    /\ RawElems = <<0, 0, 1, 1, 0, 1>>

\* C4: a raw sequence whose length is not num_samples*sample_size is
\* rejected: the reshape raises before any mean is taken, and no sample
\* means exist.
C4_RejectsWrongLength ==
    (pc # "reshape" /\ Len(RawElems) # locals.num_samples * locals.sample_size) =>
      /\ pc = "error"
      /\ calls = <<"reshape">>
      /\ ~Bound(locals, "samples")
      /\ ~Bound(locals, "sample_means")

\* Five values were handed in for two blocks of two and were rejected.
C4_Witness ==
    /\ pc = "error"
    /\ Len(RawElems) = 5
    /\ locals.num_samples = 2
    /\ locals.sample_size = 2

----------------------------------------------------------------------------
(* Properties of the app (Spec) *)

Shown(e) == e \in Elements(rendered)

Called(f) == f \in Elements(calls)

\* C2: in a pass that runs the simulation the raw data has exactly
\* num_samples*sample_size elements and there are exactly num_samples
\* sample means, for the values the controls gave in that pass; 30 and 2000
\* give 60000 and 2000.
C2_Lengths ==
    /\ Bound(locals, "daily_revenue_data") =>
         /\ locals.num_samples = widgets.num_samples
         /\ locals.sample_size = widgets.sample_size
         /\ locals.daily_revenue_data.shape =
              <<locals.num_samples * locals.sample_size>>
    /\ Bound(locals, "sample_means") =>
         locals.sample_means.shape = <<locals.num_samples>>
    /\ (pc \in {"plot1", "plot2", "implications"} \/ (pc = "done" /\ clicked)) =>
         /\ Bound(locals, "daily_revenue_data")
         /\ Bound(locals, "sample_means")
    /\ (/\ Bound(locals, "sample_means")
        /\ locals.sample_size = 30
        /\ locals.num_samples = 2000) =>
         /\ locals.daily_revenue_data.shape = <<60000>>
         /\ locals.sample_means.shape = <<2000>>

\* The default controls have been simulated.
C2_Witness ==
    /\ pc = "done"
    /\ Bound(locals, "sample_means")
    /\ locals.sample_size = 30
    /\ locals.num_samples = 2000

\* C5 as claimed: a run either shows both charts or, having failed, shows
\* nothing of the results.
C5_AllOrNothing ==
    (Idle /\ clicked) =>
      \/ Shown("chart1") /\ Shown("chart2")
      \/ Elements(rendered) \cap ResultElements = {}

\* C5 as amended: a run that reaches its end shows all of the results; a run
\* stopped by an exception keeps what was drawn before the failing step
\* (the results header always, the first chart exactly when the second plot
\* failed) and shows neither the second chart nor the closing text.
C5_PartialOnFailure ==
    /\ (pc = "done" /\ clicked) =>
         /\ ResultElements \subseteq Elements(rendered)
         /\ ~Shown("exception")
    /\ pc = "error" =>
         /\ clicked
         /\ Shown("results_header")
         /\ rendered[Len(rendered)] = "exception"
         /\ ~Shown("chart2")
         /\ ~Shown("implications")
         /\ Shown("chart1") <=> calls[Len(calls)] = "histogram2"

\* The second plot failed with the first chart on the page.
C5_Witness ==
    /\ pc = "error"
    /\ Shown("chart1")
    /\ ~Shown("chart2")

\* C7: the parameters the simulation consumes are integers with
\* 10 <= avg_daily_revenue <= 1000, 1 <= sample_size <= 100 and
\* 100 <= num_samples <= 10000, whatever the user did; before any user
\* event they are 150, 30 and 2000.
C7_ParameterRanges ==
    Bound(locals, "num_samples") =>
      /\ locals.avg_daily_revenue \in 10..1000
      /\ locals.sample_size \in 1..100
      /\ locals.num_samples \in 100..10000
      /\ events = 0 =>
           /\ locals.avg_daily_revenue = 150
           /\ locals.sample_size = 30
           /\ locals.num_samples = 2000

\* The simulation ran on the far ends of the three ranges.
C7_Witness ==
    /\ Called("exponential")
    /\ locals.avg_daily_revenue = 10
    /\ locals.sample_size = 100
    /\ locals.num_samples = 10000

\* C8: a pass starts with nothing of an earlier pass: no raw data, no
\* sample means, no chart; what a pass holds it made itself, from the
\* control values of that pass.
C8_Stateless ==
    /\ pc = "start" =>
         /\ DOMAIN locals = {}
         /\ rendered = <<>>
         /\ calls = <<>>
    /\ Bound(locals, "daily_revenue_data") =>
         /\ Called("exponential")
         /\ Size(locals.daily_revenue_data) =
              widgets.num_samples * widgets.sample_size
    /\ Bound(locals, "sample_means") =>
         /\ Called("mean")
         /\ Size(locals.sample_means) = widgets.num_samples
    /\ Shown("chart1") => Called("histogram1")
    /\ Shown("chart2") => Called("histogram2")

\* A pass starts after a run that drew from the random source, with the
\* controls changed since.
C8_Witness ==
    /\ pc = "start"
    /\ rng_calls >= 1
    /\ widgets.sample_size # SizeDefault

\* What every pass satisfies, pressed or not, of C9.
GateEachPass ==
    /\ Count(calls, "exponential") <= 1
    /\ Count(calls, "reshape") <= 1
    /\ Count(calls, "mean") <= 1
    /\ ~clicked => calls = <<>>
    /\ (Shown("chart1") \/ Shown("chart2")) =>
         /\ Called("exponential")
         /\ Called("mean")
    /\ Idle =>
         (Shown("info") <=> (Elements(rendered) \cap ResultElements = {}))
    /\ (pc = "done" /\ ~clicked) =>
         rendered = <<"title", "intro", "controls", "info">>

\* C9 as claimed: in every pass the button started, sampling and aggregation
\* have each run exactly once when the pass ends.
C9_ExactlyOnceEveryPass ==
    /\ GateEachPass
    /\ (Idle /\ clicked) =>
         /\ Count(calls, "exponential") = 1
         /\ Count(calls, "reshape") = 1
         /\ Count(calls, "mean") = 1

\* C9 as amended: the button gates the computation; sampling and aggregation
\* run exactly once in a pass the button started that reaches its end and at
\* most once in one an exception stops, never in a pass the button did not
\* start; the computation comes before both charts; an ended pass shows
\* either results or the information box, and a pass started by a changed
\* control shows the box alone.
C9_ButtonGates ==
    /\ GateEachPass
    /\ (pc = "done" /\ clicked) =>
         /\ Count(calls, "exponential") = 1
         /\ Count(calls, "reshape") = 1
         /\ Count(calls, "mean") = 1
         /\ ResultElements \subseteq Elements(rendered)

\* After a run, a changed control has redrawn the page with the box alone.
C9_Witness ==
    /\ pc = "done"
    /\ ~clicked
    /\ rng_calls >= 1
    /\ Shown("info")

\* C10: the sampler is asked for num_samples*sample_size draws, a number
\* from 100 to 1000000, the reshape receives exactly that many and never
\* raises.
C10_ReshapeNeverFails ==
    /\ Bound(locals, "total_days_to_simulate") =>
         /\ locals.total_days_to_simulate =
              locals.num_samples * locals.sample_size
         /\ locals.total_days_to_simulate \in 100..1000000
    /\ Bound(locals, "daily_revenue_data") =>
         Size(locals.daily_revenue_data) = locals.total_days_to_simulate
    /\ Called("reshape") =>
         /\ Bound(locals, "samples")
         /\ locals.samples.shape = <<locals.num_samples, locals.sample_size>>
    /\ pc = "error" => calls[Len(calls)] # "reshape"

\* The largest run the controls allow has been reshaped.
C10_Witness ==
    /\ Called("reshape")
    /\ Bound(locals, "samples")
    /\ locals.total_days_to_simulate = 1000000

====
